---------------------------- MODULE Spec2Model ----------------------------
(***************************************************************************)
(* Model of the vapix error taxonomy (src/src/error.rs) and of the         *)
(* ISO-8601 timestamp codec (src/src/v3/recordings/iso8601.rs).            *)
(*                                                                         *)
(* Both components are pure value transformations.  A behaviour of the     *)
(* model draws one input in Init (a failure origin, or a timestamp, or a   *)
(* text to decode) and then applies the operations of the code to it.      *)
(* Text is modelled by TLA+ strings: Len, SubSeq and \o act on them.       *)
(***************************************************************************)
EXTENDS Integers, Sequences, FiniteSets, TLC

VARIABLES
    pc,        \* position of the caller: "origin", "built", "encode", "decode", "done"
    origin,    \* the failure origin (or success) the caller starts from
    result,    \* the current Result<T, Error<TE>> value
    prev,      \* the argument of the latest map_404_to_unsupported_feature
    first,     \* the value returned by the first map_404_to_unsupported_feature
    applied,   \* number of times map_404_to_unsupported_feature was applied
    sink,      \* whether the fmt::Formatter's sink accepts writes
    rendered,  \* outcome of Display::fmt on the error, Nothing before it ran
    dt,        \* the DateTime handed to serialize
    wire,      \* the text on the wire: output of serialize, input of deserialize
    decoded,   \* outcome of deserialize, Nothing before it ran
    rounding   \* how the linked chrono renders a sub-minute offset

vars == <<pc, origin, result, prev, first, applied, sink, rendered, dt, wire, decoded, rounding>>

\* Option<T>: None is the empty tuple, Some(x) a one-element tuple.
None == <<>>
Some(x) == <<x>>

\* A variable that holds no value yet.
Nothing == [nothing |-> TRUE]

\* Result<T, E>
Ok(v) == [ok |-> TRUE, val |-> v]
Err(e) == [ok |-> FALSE, err |-> e]

(***************************************************************************)
(* Bounds of the model.                                                    *)
(***************************************************************************)
\* How many times in a row a caller applies map_404_to_unsupported_feature.
MaxApply == 2

(***************************************************************************)
(* error.rs: the types                                                     *)
(***************************************************************************)
\* RawJsonApiError { code: u32, message: Option<String> }
RawJsonApiError(code, message) == [code |-> code, message |-> message]

\* ApiError: eight unit variants and OtherError(Box<RawJsonApiError>).
ApiErrorUnit(name) == [api |-> name]
OtherError(raw) == [api |-> "OtherError", raw |-> raw]

\* UnparseableResponseError
JsonDeError(e) == [de |-> "JsonDeError", e |-> e]
XmlDeError(e) == [de |-> "XmlDeError", e |-> e]

\* Error<TE>
TransportError(te) == [variant |-> "TransportError", te |-> te]
BadStatusCodeError(sc) == [variant |-> "BadStatusCodeError", sc |-> sc]
BadContentTypeError(ct) == [variant |-> "BadContentTypeError", ct |-> ct]
UnparseableResponseError(e) == [variant |-> "UnparseableResponseError", e |-> e]
ApiError(e) == [variant |-> "ApiError", e |-> e]
UnsupportedFeature == [variant |-> "UnsupportedFeature"]
Other(s) == [variant |-> "Other", s |-> s]

\* http::StatusCode::NOT_FOUND
NOT_FOUND == 404

(***************************************************************************)
(* error.rs: the conversions                                               *)
(***************************************************************************)
\* A 2003 that lands on the 2004 arm: two codes merged into one variant.
ApiErrorFromRawMerged(e) ==
    CASE e.code = 1000 -> ApiErrorUnit("InvalidParameter")
      [] e.code = 2001 -> ApiErrorUnit("AccessForbidden")
      [] e.code = 2002 -> ApiErrorUnit("UnsupportedHttpMethod")
      [] e.code = 2003 -> ApiErrorUnit("UnsupportedApiMethod")
      [] e.code = 2004 -> ApiErrorUnit("UnsupportedApiMethod")
      [] e.code = 4000 -> ApiErrorUnit("InvalidJsonFormat")
      [] e.code = 4002 -> ApiErrorUnit("RequiredParameterIsMissing")
      [] e.code = 8000 -> ApiErrorUnit("InternalError")
      [] OTHER -> OtherError(e)

\* An escape arm that keeps the code and forgets the message.
ApiErrorFromRawNoMessage(e) ==
    CASE e.code = 1000 -> ApiErrorUnit("InvalidParameter")
      [] e.code = 2001 -> ApiErrorUnit("AccessForbidden")
      [] e.code = 2002 -> ApiErrorUnit("UnsupportedHttpMethod")
      [] e.code = 2003 -> ApiErrorUnit("UnsupportedApiVersion")
      [] e.code = 2004 -> ApiErrorUnit("UnsupportedApiMethod")
      [] e.code = 4000 -> ApiErrorUnit("InvalidJsonFormat")
      [] e.code = 4002 -> ApiErrorUnit("RequiredParameterIsMissing")
      [] e.code = 8000 -> ApiErrorUnit("InternalError")
      [] OTHER -> OtherError(RawJsonApiError(e.code, None))

\* impl From<RawJsonApiError> for ApiError
ApiErrorFromRaw(e) ==
    CASE e.code = 1000 -> ApiErrorUnit("InvalidParameter")
      [] e.code = 2001 -> ApiErrorUnit("AccessForbidden")
      [] e.code = 2002 -> ApiErrorUnit("UnsupportedHttpMethod")
      [] e.code = 2003 -> ApiErrorUnit("UnsupportedApiVersion")
      [] e.code = 2004 -> ApiErrorUnit("UnsupportedApiMethod")
      [] e.code = 4000 -> ApiErrorUnit("InvalidJsonFormat")
      [] e.code = 4002 -> ApiErrorUnit("RequiredParameterIsMissing")
      [] e.code = 8000 -> ApiErrorUnit("InternalError")
      [] OTHER -> OtherError(e)

\* impl<TE> From<ApiError> for Error<TE>
ErrorFromApiError(e) == ApiError(e)

\* impl<TE> From<RawJsonApiError> for Error<TE>
ErrorFromRaw(e) == ApiError(ApiErrorFromRaw(e))

\* A JSON failure filed under the XML decoder.
ErrorFromSerdeJsonAsXml(e) == UnparseableResponseError(XmlDeError(e))

\* impl<TE> From<serde_json::Error> for Error<TE>
ErrorFromSerdeJson(e) == UnparseableResponseError(JsonDeError(e))

\* impl<TE> From<quick_xml::DeError> for Error<TE>
ErrorFromQuickXml(e) == UnparseableResponseError(XmlDeError(e))

\* A transform that reinterprets every 4xx status, not 404 alone.
Map404AnyClientError(r) ==
    IF ~r.ok /\ r.err.variant = "BadStatusCodeError" /\ r.err.sc \div 100 = 4
    THEN Err(UnsupportedFeature)
    ELSE r

\* A transform that matches 404 and leaves it as it is.
Map404Forgotten(r) == r

\* A transform that toggles between the two values instead of settling.
Map404Toggle(r) ==
    IF ~r.ok /\ r.err.variant = "BadStatusCodeError" /\ r.err.sc = NOT_FOUND
    THEN Err(UnsupportedFeature)
    ELSE IF ~r.ok /\ r.err.variant = "UnsupportedFeature"
         THEN Err(BadStatusCodeError(NOT_FOUND))
         ELSE r

\* ResultExt::map_404_to_unsupported_feature
map_404_to_unsupported_feature(r) ==
    IF ~r.ok /\ r.err.variant = "BadStatusCodeError" /\ r.err.sc = NOT_FOUND
    THEN Err(UnsupportedFeature)
    ELSE r

(***************************************************************************)
(* Rendering helpers: the Debug and Display forms the format strings use   *)
(***************************************************************************)
\* The i-th character of a text.
CharAt(s, i) == SubSeq(s, i, i)

\* char::escape_debug for the characters the model's texts hold.
EscapeDebugChar(c) ==
    CASE c = "\"" -> "\\\""
      [] c = "\\" -> "\\\\"
      [] c = "\n" -> "\\n"
      [] c = "\t" -> "\\t"
      [] c = "\r" -> "\\r"
      [] OTHER -> c

RECURSIVE EscapeDebugFrom(_, _)
EscapeDebugFrom(s, i) ==
    IF i > Len(s) THEN "" ELSE EscapeDebugChar(CharAt(s, i)) \o EscapeDebugFrom(s, i + 1)

\* <str as fmt::Debug>::fmt, the {:?} of a &str or String
DebugStr(s) == "\"" \o EscapeDebugFrom(s, 1) \o "\""

\* {:?} of Option<String>
DebugOptionString(m) == IF m = None THEN "None" ELSE "Some(" \o DebugStr(m[1]) \o ")"

\* #[derive(Debug)] of RawJsonApiError
DebugRawJsonApiError(r) ==
    "RawJsonApiError { code: " \o ToString(r.code) \o ", message: "
        \o DebugOptionString(r.message) \o " }"

\* #[derive(Debug)] of ApiError
DebugApiError(e) ==
    IF e.api = "OtherError" THEN "OtherError(" \o DebugRawJsonApiError(e.raw) \o ")" ELSE e.api

\* {:?} of the decoders' native errors: serde_json::Error and quick_xml::DeError.
DebugNativeError(e) ==
    IF e.decoder = "serde_json"
    THEN "Error(" \o DebugStr(e.msg) \o ", line: " \o ToString(e.line)
             \o ", column: " \o ToString(e.column) \o ")"
    ELSE "Custom(" \o DebugStr(e.msg) \o ")"

\* #[derive(Debug)] of UnparseableResponseError
DebugUnparseableResponseError(e) == e.de \o "(" \o DebugNativeError(e.e) \o ")"

\* {:?} of http::HeaderValue; the model's header values hold visible ASCII
\* other than the double quote, which is written as it is.
DebugHeaderValue(hv) == IF hv.sensitive THEN "Sensitive" ELSE "\"" \o hv.bytes \o "\""

\* {:?} of Option<HeaderValue>
DebugOptionHeaderValue(ct) ==
    IF ct = None THEN "None" ELSE "Some(" \o DebugHeaderValue(ct[1]) \o ")"

\* http::StatusCode::canonical_reason for the status codes of the model
CanonicalReason(sc) ==
    CASE sc = 400 -> Some("Bad Request")
      [] sc = 403 -> Some("Forbidden")
      [] sc = 404 -> Some("Not Found")
      [] sc = 405 -> Some("Method Not Allowed")
      [] sc = 410 -> Some("Gone")
      [] sc = 500 -> Some("Internal Server Error")
      [] OTHER -> None

\* <http::StatusCode as fmt::Display>::fmt
DisplayStatusCode(sc) ==
    ToString(sc) \o " "
        \o (IF CanonicalReason(sc) = None THEN "<unknown status code>"
            ELSE CanonicalReason(sc)[1])

\* Outcome of a formatting call: whether it returned Ok, and the text that
\* reached the sink.
FmtOutcome(ok, text) == [ok |-> ok, text |-> text]

\* The transport error's own Display: the embedding client's code, which
\* may return fmt::Error.
DisplayTransport(te) == FmtOutcome(te.fmt_ok, te.text)

\* write!(f, "<literal>{}", arg): the literal piece is written first, then
\* the argument's own fmt runs; the first failure is returned.
WriteFmt(sinkOk, literal, arg) ==
    IF ~sinkOk THEN FmtOutcome(FALSE, "")
    ELSE FmtOutcome(arg.ok, literal \o arg.text)

(***************************************************************************)
(* error.rs: impl fmt::Display for Error<TE>, one operator per match arm   *)
(***************************************************************************)
FmtTransportError(te, sinkOk) ==
    WriteFmt(sinkOk, "transport error: ", DisplayTransport(te))

FmtBadStatusCodeError(sc, sinkOk) ==
    WriteFmt(sinkOk, "bad status code: ", FmtOutcome(TRUE, DisplayStatusCode(sc)))

\* A rendering that insists on a header being there.
FmtBadContentTypeErrorStrict(ct, sinkOk) ==
    IF ct = None THEN FmtOutcome(FALSE, IF sinkOk THEN "bad content type: got " ELSE "")
    ELSE WriteFmt(sinkOk, "bad content type: got ", FmtOutcome(TRUE, DebugOptionHeaderValue(ct)))

FmtBadContentTypeError(ct, sinkOk) ==
    WriteFmt(sinkOk, "bad content type: got ", FmtOutcome(TRUE, DebugOptionHeaderValue(ct)))

FmtUnparseableResponseError(e, sinkOk) ==
    WriteFmt(sinkOk, "unparseable response: ", FmtOutcome(TRUE, DebugUnparseableResponseError(e)))

FmtApiError(e, sinkOk) ==
    WriteFmt(sinkOk, "JSON API error: ", FmtOutcome(TRUE, DebugApiError(e)))

FmtUnsupportedFeature(sinkOk) ==
    WriteFmt(sinkOk, "this device does not support that feature", FmtOutcome(TRUE, ""))

\* An Other arm written with {:?} instead of {}.
FmtOtherDebug(s, sinkOk) == WriteFmt(sinkOk, "error: ", FmtOutcome(TRUE, DebugStr(s)))

FmtOther(s, sinkOk) == WriteFmt(sinkOk, "error: ", FmtOutcome(TRUE, s))

\* <Error<TE> as fmt::Display>::fmt
DisplayError(e, sinkOk) ==
    CASE e.variant = "TransportError" -> FmtTransportError(e.te, sinkOk)
      [] e.variant = "BadStatusCodeError" -> FmtBadStatusCodeError(e.sc, sinkOk)
      [] e.variant = "BadContentTypeError" -> FmtBadContentTypeError(e.ct, sinkOk)
      [] e.variant = "UnparseableResponseError" -> FmtUnparseableResponseError(e.e, sinkOk)
      [] e.variant = "ApiError" -> FmtApiError(e.e, sinkOk)
      [] e.variant = "UnsupportedFeature" -> FmtUnsupportedFeature(sinkOk)
      [] e.variant = "Other" -> FmtOther(e.s, sinkOk)

(***************************************************************************)
(* iso8601.rs: the timestamp values                                        *)
(*                                                                         *)
(* A DateTime<FixedOffset> is an instant and an offset, as chrono keeps    *)
(* it: the UTC date (days since 1970-01-01), the UTC second of the day,    *)
(* the nanoseconds (1,000,000,000 and more in a leap second) and the       *)
(* offset east of UTC in seconds.                                          *)
(***************************************************************************)
DateTime(day, sec, frac, offset) == [day |-> day, sec |-> sec, frac |-> frac, offset |-> offset]

\* Days since 1970-01-01 of a date of the proleptic Gregorian calendar.
DaysFromCivil(y, m, d) ==
    LET yy == IF m <= 2 THEN y - 1 ELSE y
        era == yy \div 400
        yoe == yy - era * 400
        mp == IF m > 2 THEN m - 3 ELSE m + 9
        doy == (153 * mp + 2) \div 5 + d - 1
        doe == yoe * 365 + yoe \div 4 - yoe \div 100 + doy
    IN era * 146097 + doe - 719468

\* The date of the proleptic Gregorian calendar a day number falls on.
CivilFromDays(z) ==
    LET zz == z + 719468
        era == zz \div 146097
        doe == zz - era * 146097
        yoe == (doe - doe \div 1460 + doe \div 36524 - doe \div 146096) \div 365
        doy == doe - (365 * yoe + yoe \div 4 - yoe \div 100)
        mp == (5 * doy + 2) \div 153
        d == doy - (153 * mp + 2) \div 5 + 1
        m == IF mp < 10 THEN mp + 3 ELSE mp - 9
        y == yoe + era * 400 + (IF m <= 2 THEN 1 ELSE 0)
    IN [year |-> y, month |-> m, mday |-> d]

IsLeapYear(y) == (y % 4 = 0 /\ y % 100 # 0) \/ y % 400 = 0

DaysInMonth(y, m) ==
    CASE m \in {4, 6, 9, 11} -> 30
      [] m = 2 -> IF IsLeapYear(y) THEN 29 ELSE 28
      [] OTHER -> 31

\* The local date and time of day of a DateTime: the instant moved by the offset.
LocalOf(t) ==
    LET total == t.sec + t.offset
    IN [lday |-> t.day + (total \div 86400), lsec |-> total % 86400]

(***************************************************************************)
(* iso8601.rs, serialize: DateTime::to_rfc3339                             *)
(***************************************************************************)
RECURSIVE Zeros(_)
Zeros(k) == IF k <= 0 THEN "" ELSE "0" \o Zeros(k - 1)

\* {:0width} of a number that is not negative
ZeroPad(n, width) == Zeros(width - Len(ToString(n))) \o ToString(n)

\* The year: four digits within 0..=9999, else signed and padded to five places.
FormatYear(y) ==
    IF 0 <= y /\ y <= 9999 THEN ZeroPad(y, 4)
    ELSE IF y < 0 THEN "-" \o ZeroPad(-y, 4) ELSE "+" \o ZeroPad(y, 4)

\* The fraction: none, or 3, 6 or 9 digits, the shortest that is exact.
FormatFraction(nano) ==
    IF nano = 0 THEN ""
    ELSE IF nano % 1000000 = 0 THEN "." \o ZeroPad(nano \div 1000000, 3)
    ELSE IF nano % 1000 = 0 THEN "." \o ZeroPad(nano \div 1000, 6)
    ELSE "." \o ZeroPad(nano, 9)

\* The offset as +HH:MM. RFC 3339 has no seconds in an offset: chrono
\* drops them ("truncate") or rounds to the nearest minute ("round"),
\* depending on its version.
FormatOffset(off, mode) ==
    LET a == IF off < 0 THEN -off ELSE off
        mins == IF mode = "round" THEN (a + 30) \div 60 ELSE a \div 60
    IN (IF off < 0 THEN "-" ELSE "+") \o ZeroPad(mins \div 60, 2) \o ":" \o ZeroPad(mins % 60, 2)

\* A rendering that first moves the timestamp to UTC.
ToRfc3339Utc(t, mode) ==
    LET c == CivilFromDays(t.day)
        leap == IF t.frac >= 1000000000 THEN 1 ELSE 0
    IN FormatYear(c.year) \o "-" \o ZeroPad(c.month, 2) \o "-" \o ZeroPad(c.mday, 2)
         \o "T" \o ZeroPad(t.sec \div 3600, 2) \o ":" \o ZeroPad((t.sec \div 60) % 60, 2)
         \o ":" \o ZeroPad((t.sec % 60) + leap, 2)
         \o FormatFraction(t.frac % 1000000000)
         \o "+00:00"

\* DateTime::to_rfc3339: the local date and time, then the offset.
ToRfc3339(t, mode) ==
    LET l == LocalOf(t)
        c == CivilFromDays(l.lday)
        leap == IF t.frac >= 1000000000 THEN 1 ELSE 0
    IN FormatYear(c.year) \o "-" \o ZeroPad(c.month, 2) \o "-" \o ZeroPad(c.mday, 2)
         \o "T" \o ZeroPad(l.lsec \div 3600, 2) \o ":" \o ZeroPad((l.lsec \div 60) % 60, 2)
         \o ":" \o ZeroPad((l.lsec % 60) + leap, 2)
         \o FormatFraction(t.frac % 1000000000)
         \o FormatOffset(t.offset, mode)

\* serialize: serializer.serialize_str(&date_time.to_rfc3339()); the text
\* handed to the serializer is the text the deserializer hands back.
serialize(t, mode) == ToRfc3339(t, mode)

(***************************************************************************)
(* iso8601.rs, deserialize: DateTime::parse_from_rfc3339                   *)
(*                                                                         *)
(* A scan yields [fail |-> kind] or the position after what it consumed    *)
(* (and the number read).  Positions count characters from 1.              *)
(***************************************************************************)
Digits == {"0", "1", "2", "3", "4", "5", "6", "7", "8", "9"}

DigitValue(c) ==
    CASE c = "0" -> 0 [] c = "1" -> 1 [] c = "2" -> 2 [] c = "3" -> 3 [] c = "4" -> 4
      [] c = "5" -> 5 [] c = "6" -> 6 [] c = "7" -> 7 [] c = "8" -> 8 [] c = "9" -> 9

Fail(kind) == [fail |-> kind]
Failed(r) == "fail" \in DOMAIN r

\* chrono::format::ParseError's Display
DisplayParseError(kind) ==
    CASE kind = "OutOfRange" -> "input is out of range"
      [] kind = "Impossible" -> "no possible date and time matching input"
      [] kind = "NotEnough" -> "input is not enough for unique date and time"
      [] kind = "Invalid" -> "input contains invalid characters"
      [] kind = "TooShort" -> "premature end of input"
      [] kind = "TooLong" -> "trailing input"
      [] kind = "BadFormat" -> "bad or unsupported format string"

RECURSIVE DigitRun(_, _, _)
\* How many digits stand at position i and after, counting at most max.
DigitRun(s, i, max) ==
    IF max = 0 \/ i > Len(s) \/ CharAt(s, i) \notin Digits THEN 0
    ELSE 1 + DigitRun(s, i + 1, max - 1)

RECURSIVE NumberValue(_, _, _)
\* The value of the k digits that end before position j.
NumberValue(s, j, k) ==
    IF k = 0 THEN 0 ELSE NumberValue(s, j - 1, k - 1) * 10 + DigitValue(CharAt(s, j - 1))

\* scan::number(s, min, max): between min and max digits
ScanNumber(s, i, min, max) ==
    LET k == DigitRun(s, i, max)
    IN IF Len(s) - i + 1 < min THEN Fail("TooShort")
       ELSE IF k < min THEN Fail("Invalid")
       ELSE [next |-> i + k, n |-> NumberValue(s, i + k, k)]

\* scan::char(s, c): exactly the character c
ScanChar(s, i, c) ==
    IF i > Len(s) THEN Fail("TooShort")
    ELSE IF CharAt(s, i) # c THEN Fail("Invalid")
    ELSE [next |-> i + 1]

\* The separator between date and time: T or t.
ScanDateTimeSeparator(s, i) ==
    IF i > Len(s) THEN Fail("TooShort")
    ELSE IF CharAt(s, i) \notin {"T", "t"} THEN Fail("Invalid")
    ELSE [next |-> i + 1]

\* scan::nanosecond(s): one to nine digits scaled to nanoseconds; digits
\* after the ninth are skipped.
ScanNanosecond(s, i) ==
    LET k == DigitRun(s, i, 9)
        more == DigitRun(s, i + k, Len(s))
        scale == [j \in 1..9 |-> 10 ^ (9 - j)]
    IN IF i > Len(s) THEN Fail("TooShort")
       ELSE IF k < 1 THEN Fail("Invalid")
       ELSE [next |-> i + k + more, n |-> NumberValue(s, i + k, k) * scale[k]]

\* scan::timezone_offset: Z or z, or a sign, two digits of hours, a colon
\* and two digits of minutes below 60.
ScanTimezoneOffset(s, i) ==
    IF i > Len(s) THEN Fail("TooShort")
    ELSE IF CharAt(s, i) \in {"Z", "z"} THEN [next |-> i + 1, n |-> 0]
    ELSE IF CharAt(s, i) \notin {"+", "-"} THEN Fail("Invalid")
    ELSE IF Len(s) - i < 2 THEN Fail("TooShort")
    ELSE IF CharAt(s, i + 1) \notin Digits \/ CharAt(s, i + 2) \notin Digits THEN Fail("Invalid")
    ELSE LET hours == NumberValue(s, i + 3, 2)
             colon == ScanChar(s, i + 3, ":")
         IN IF Failed(colon) THEN colon
            ELSE IF Len(s) - (i + 3) < 2 THEN Fail("TooShort")
            ELSE IF CharAt(s, i + 4) \in {"6", "7", "8", "9"} /\ CharAt(s, i + 5) \in Digits
                 THEN Fail("OutOfRange")
            ELSE IF CharAt(s, i + 4) \notin Digits \/ CharAt(s, i + 5) \notin Digits
                 THEN Fail("Invalid")
            ELSE LET seconds == hours * 3600 + NumberValue(s, i + 6, 2) * 60
                 IN [next |-> i + 6,
                     n |-> IF CharAt(s, i) = "-" THEN -seconds ELSE seconds]

\* format::parse::parse_rfc3339: the fields in the order of the text.
ParseRfc3339Fields(s) ==
    LET year == ScanNumber(s, 1, 4, 4) IN
    IF Failed(year) THEN year ELSE
    LET d1 == ScanChar(s, year.next, "-") IN
    IF Failed(d1) THEN d1 ELSE
    LET month == ScanNumber(s, d1.next, 2, 2) IN
    IF Failed(month) THEN month ELSE
    LET d2 == ScanChar(s, month.next, "-") IN
    IF Failed(d2) THEN d2 ELSE
    LET mday == ScanNumber(s, d2.next, 2, 2) IN
    IF Failed(mday) THEN mday ELSE
    LET sep == ScanDateTimeSeparator(s, mday.next) IN
    IF Failed(sep) THEN sep ELSE
    LET hour == ScanNumber(s, sep.next, 2, 2) IN
    IF Failed(hour) THEN hour ELSE
    LET c1 == ScanChar(s, hour.next, ":") IN
    IF Failed(c1) THEN c1 ELSE
    LET minute == ScanNumber(s, c1.next, 2, 2) IN
    IF Failed(minute) THEN minute ELSE
    LET c2 == ScanChar(s, minute.next, ":") IN
    IF Failed(c2) THEN c2 ELSE
    LET second == ScanNumber(s, c2.next, 2, 2) IN
    IF Failed(second) THEN second ELSE
    LET hasFrac == second.next <= Len(s) /\ CharAt(s, second.next) = "."
        nano == IF hasFrac THEN ScanNanosecond(s, second.next + 1)
                ELSE [next |-> second.next, n |-> 0]
    IN
    IF Failed(nano) THEN nano ELSE
    LET off == ScanTimezoneOffset(s, nano.next) IN
    IF Failed(off) THEN off ELSE
    IF off.n <= -86400 \/ off.n >= 86400 THEN Fail("OutOfRange") ELSE
    [next |-> off.next, year |-> year.n, month |-> month.n, mday |-> mday.n,
     hour |-> hour.n, minute |-> minute.n, second |-> second.n,
     nano |-> nano.n, offset |-> off.n]

\* Parsed::to_datetime: the fields checked against the calendar and the
\* clock, then the local time moved back by the offset.
ToDateTime(p) ==
    IF p.month < 1 \/ p.month > 12 \/ p.mday < 1 \/ p.mday > DaysInMonth(p.year, p.month)
       \/ p.hour > 23 \/ p.minute > 59 \/ p.second > 60
    THEN Fail("OutOfRange")
    ELSE LET sec == IF p.second = 60 THEN 59 ELSE p.second
             frac == IF p.second = 60 THEN p.nano + 1000000000 ELSE p.nano
             total == p.hour * 3600 + p.minute * 60 + sec - p.offset
         IN [next |-> p.next,
             val |-> DateTime(DaysFromCivil(p.year, p.month, p.mday) + (total \div 86400),
                              total % 86400, frac, p.offset)]

\* DateTime::parse_from_rfc3339: the scan, no text left over, the checks.
ParseFromRfc3339(s) ==
    LET p == ParseRfc3339Fields(s)
    IN IF Failed(p) THEN p
       ELSE IF p.next <= Len(s) THEN Fail("TooLong")
       ELSE ToDateTime(p)

\* A closure that renders the offending text with {} instead of {:?}.
VisitStrPlain(v) ==
    LET r == ParseFromRfc3339(v)
    IN IF Failed(r)
       THEN [ok |-> FALSE,
             custom |-> "invaild timestamp " \o v \o ": " \o DisplayParseError(r.fail)]
       ELSE Ok(r.val)

\* V::visit_str: parse, and on failure E::custom of the formatted message
visit_str(v) ==
    LET r == ParseFromRfc3339(v)
    IN IF Failed(r)
       THEN [ok |-> FALSE,
             custom |-> "invaild timestamp " \o DebugStr(v) \o ": " \o DisplayParseError(r.fail)]
       ELSE Ok(r.val)

\* deserialize: deserializer.deserialize_str(V), which calls visit_str with
\* the text on the wire.
deserialize(text) == visit_str(text)

(***************************************************************************)
(* The inputs the behaviours draw from                                     *)
(***************************************************************************)
\* Values of the success type T: several types, as the transform is generic.
OkValues == {[ty |-> "unit"], [ty |-> "String", text |-> "body"]}

\* Values of the transport error type TE, of several types; the last one's
\* Display returns fmt::Error.
TransportErrors ==
    {[ty |-> "io", text |-> "connection refused", fmt_ok |-> TRUE],
     [ty |-> "hyper", text |-> "timed out", fmt_ok |-> TRUE],
     [ty |-> "custom", text |-> "", fmt_ok |-> FALSE]}

StatusCodes == {400, 403, 404, 405, 410, 500, 599}

ContentTypes ==
    {None, Some([bytes |-> "text/html", sensitive |-> FALSE]),
     Some([bytes |-> "token", sensitive |-> TRUE])}

JsonErrors ==
    {[decoder |-> "serde_json", msg |-> "expected value", line |-> 1, column |-> 1],
     [decoder |-> "serde_json", msg |-> "EOF while parsing an object", line |-> 1, column |-> 12]}

XmlErrors ==
    {[decoder |-> "quick_xml", msg |-> "missing field code"],
     [decoder |-> "quick_xml", msg |-> "unexpected end of file"]}

RecognizedCodes == {1000, 2001, 2002, 2003, 2004, 4000, 4002, 8000}
Codes == RecognizedCodes \cup {0, 999, 1001, 2000, 4001, 9999}
Messages == {None, Some("forbidden"), Some("say \"no\"")}
RawErrors == {RawJsonApiError(c, m) : c \in Codes, m \in Messages}

\* ApiError values a caller holds already.
ApiErrors ==
    {ApiErrorUnit("InternalError"), ApiErrorUnit("AccessForbidden"),
     OtherError(RawJsonApiError(9999, None))}

StaticStrs == {"unexpected response", "", "no \"root\" element"}

Origins ==
    {[kind |-> "success", val |-> v] : v \in OkValues}
    \cup {[kind |-> "transport", te |-> t] : t \in TransportErrors}
    \cup {[kind |-> "status", sc |-> c] : c \in StatusCodes}
    \cup {[kind |-> "content_type", ct |-> c] : c \in ContentTypes}
    \cup {[kind |-> "json", e |-> e] : e \in JsonErrors}
    \cup {[kind |-> "xml", e |-> e] : e \in XmlErrors}
    \cup {[kind |-> "raw", raw |-> r] : r \in RawErrors}
    \cup {[kind |-> "api", e |-> e] : e \in ApiErrors}
    \cup {[kind |-> "unsupported"]}
    \cup {[kind |-> "other", s |-> t] : t \in StaticStrs}

\* The UTC dates of the timestamps, as (year, month, day).
Dates ==
    {<<2024, 3, 1>>, <<2024, 2, 29>>, <<1999, 12, 31>>, <<1970, 1, 1>>,
     <<0, 1, 1>>, <<-1, 12, 31>>, <<9999, 12, 31>>, <<10000, 1, 1>>}

\* UTC seconds of the day: midnight, 01:01:01, noon, 23:59:59.
DaySeconds == {0, 3661, 43200, 86399}

\* Nanoseconds; 1,500,000,000 is half a second into a leap second.
Fractions == {0, 500000000, 123456000, 1, 1500000000}

\* Offsets east of UTC in seconds: whole minutes, and some that are not.
Offsets == {0, 3600, -3600, 19800, -34200, 86340, -86340, 3630, -3601, 59, 86399}

DateTimes ==
    {DateTime(DaysFromCivil(d[1], d[2], d[3]), s, f, o) :
        d \in Dates, s \in DaySeconds, f \in Fractions, o \in Offsets}

\* chrono::NaiveTime holds a leap second at second 59 of a minute only.
ValidDateTime(t) == t.frac < 1000000000 \/ t.sec % 60 = 59

\* What a sub-minute offset becomes in the text, by chrono version.
OffsetModes == {"truncate", "round"}

\* Texts that are no RFC 3339 timestamp with an offset: no timestamp at
\* all, a missing offset, characters that {:?} escapes, fields out of range,
\* text left over, an offset without its colon, a fraction without digits.
MalformedTexts ==
    {"not-a-date", "2024-03-01T12:00:00", "", "2024-03-01", "a\"b", "C:\\temp",
     "line1\nline2", "\"2024-03-01T12:00:00Z\"", "2024-13-01T12:00:00Z",
     "2024-02-30T12:00:00+01:00", "2024-03-01T12:00:00+01:00 ", "2024-03-01T25:00:00Z",
     "2024-03-01T12:00:00+01:60", "2024-03-01T12:00:00+0100", "2024-03-01T12:00:00.Z"}

\* RFC 3339 timestamps.
WellFormedTexts ==
    {"2024-03-01T12:00:00+01:00", "2024-03-01T12:00:00Z", "2024-03-01t12:00:00.5z",
     "2016-12-31T23:59:60Z", "2024-03-01T12:00:00.123456789012-09:30"}

\* Texts a deserializer may hand to visit_str that did not come from serialize.
WireTexts == MalformedTexts \cup WellFormedTexts

(***************************************************************************)
(* The state machine                                                       *)
(***************************************************************************)
NoOrigin == [kind |-> "none"]

\* A caller on a request's error path: a failure origin (or a success).
InitError ==
    /\ pc = "origin"
    /\ origin \in Origins
    /\ sink \in BOOLEAN
    /\ result = Nothing /\ prev = Nothing /\ first = Nothing /\ applied = 0 /\ rendered = Nothing
    /\ dt = Nothing /\ wire = "" /\ decoded = Nothing /\ rounding = "none"

\* A caller about to encode a timestamp.
InitEncode ==
    /\ pc = "encode"
    /\ dt \in {t \in DateTimes : ValidDateTime(t)}
    /\ rounding \in OffsetModes
    /\ wire = "" /\ decoded = Nothing
    /\ origin = NoOrigin /\ sink = TRUE
    /\ result = Nothing /\ prev = Nothing /\ first = Nothing /\ applied = 0 /\ rendered = Nothing

\* A caller about to decode a text received from a device.
InitDecode ==
    /\ pc = "decode"
    /\ wire \in WireTexts
    /\ dt = Nothing /\ rounding = "none" /\ decoded = Nothing
    /\ origin = NoOrigin /\ sink = TRUE
    /\ result = Nothing /\ prev = Nothing /\ first = Nothing /\ applied = 0 /\ rendered = Nothing

Init == InitError \/ InitEncode \/ InitDecode

codecVars == <<dt, wire, decoded, rounding>>

\* Building the result value from the origin.
Build(r) ==
    /\ pc = "origin"
    /\ pc' = "built"
    /\ result' = r
    /\ UNCHANGED <<origin, prev, first, applied, sink, rendered>>
    /\ UNCHANGED codecVars

\* The request succeeded: Ok(value).
Succeed == origin.kind = "success" /\ Build(Ok(origin.val))

\* An Error built from its variant: a transport failure, a failure status,
\* an unexpected content type, an unsupported feature, an unitemized error.
ConstructError ==
    /\ origin.kind \in {"transport", "status", "content_type", "unsupported", "other"}
    /\ Build(Err(CASE origin.kind = "transport" -> TransportError(origin.te)
                   [] origin.kind = "status" -> BadStatusCodeError(origin.sc)
                   [] origin.kind = "content_type" -> BadContentTypeError(origin.ct)
                   [] origin.kind = "unsupported" -> UnsupportedFeature
                   [] origin.kind = "other" -> Other(origin.s)))

\* serde_json::Error converted by `?`.
FromSerdeJson == origin.kind = "json" /\ Build(Err(ErrorFromSerdeJson(origin.e)))

\* quick_xml::DeError converted by `?`.
FromQuickXml == origin.kind = "xml" /\ Build(Err(ErrorFromQuickXml(origin.e)))

\* ApiError converted by `?`.
FromApiError == origin.kind = "api" /\ Build(Err(ErrorFromApiError(origin.e)))

\* RawJsonApiError converted by `?`.
FromRawJsonApiError == origin.kind = "raw" /\ Build(Err(ErrorFromRaw(origin.raw)))

\* result.map_404_to_unsupported_feature()
Map404 ==
    /\ pc = "built"
    /\ applied < MaxApply
    /\ prev' = result
    /\ result' = map_404_to_unsupported_feature(result)
    /\ applied' = applied + 1
    /\ first' = IF applied = 0 THEN result' ELSE first
    /\ UNCHANGED <<pc, origin, sink, rendered>>
    /\ UNCHANGED codecVars

\* format!("{}", error) on the error of the current result.
Display ==
    /\ pc = "built"
    /\ ~result.ok
    /\ rendered = Nothing
    /\ rendered' = DisplayError(result.err, sink)
    /\ UNCHANGED <<pc, origin, result, prev, first, applied, sink>>
    /\ UNCHANGED codecVars

\* iso8601::serialize(&dt, serializer)
Serialize ==
    /\ pc = "encode"
    /\ wire' = serialize(dt, rounding)
    /\ pc' = "decode"
    /\ UNCHANGED <<dt, decoded, rounding, origin, result, prev, first, applied, sink, rendered>>

\* iso8601::deserialize(deserializer)
Deserialize ==
    /\ pc = "decode"
    /\ decoded' = deserialize(wire)
    /\ pc' = "done"
    /\ UNCHANGED <<dt, wire, rounding, origin, result, prev, first, applied, sink, rendered>>

Next ==
    \/ Succeed
    \/ ConstructError
    \/ FromSerdeJson
    \/ FromQuickXml
    \/ FromApiError
    \/ FromRawJsonApiError
    \/ Map404
    \/ Display
    \/ Serialize
    \/ Deserialize

Spec == Init /\ [][Next]_vars

(***************************************************************************)
(* Properties                                                              *)
(***************************************************************************)
\* The documented classification of the raw codes.
DocumentedVariant ==
    (1000 :> "InvalidParameter") @@ (2001 :> "AccessForbidden")
    @@ (2002 :> "UnsupportedHttpMethod") @@ (2003 :> "UnsupportedApiVersion")
    @@ (2004 :> "UnsupportedApiMethod") @@ (4000 :> "InvalidJsonFormat")
    @@ (4002 :> "RequiredParameterIsMissing") @@ (8000 :> "InternalError")

\* Whether needle occurs in hay, character for character.
Contains(hay, needle) ==
    \E i \in 1..(Len(hay) - Len(needle) + 1) : SubSeq(hay, i, i + Len(needle) - 1) = needle

NotFoundResult == Err(BadStatusCodeError(404))

\* C1: a RawJsonApiError converts to the documented unit variant for each of
\* the eight recognized codes, and for every other code to OtherError
\* carrying the code and the message (an absent one included) of the input.
C1_Classification ==
    (pc = "built" /\ origin.kind = "raw") =>
        /\ ~result.ok
        /\ result.err.variant = "ApiError"
        /\ IF origin.raw.code \in DOMAIN DocumentedVariant
           THEN result.err.e = [api |-> DocumentedVariant[origin.raw.code]]
           ELSE /\ result.err.e.api = "OtherError"
                /\ result.err.e.raw.code = origin.raw.code
                /\ result.err.e.raw.message = origin.raw.message

\* C1 witness: code 9999 without a message became OtherError(9999, None).
C1_Witness ==
    /\ pc = "built" /\ origin.kind = "raw"
    /\ origin.raw = [code |-> 9999, message |-> None]
    /\ result.err.e = [api |-> "OtherError", raw |-> [code |-> 9999, message |-> None]]

\* C2: map_404_to_unsupported_feature turns Err(BadStatusCodeError(404))
\* into Err(UnsupportedFeature), and nothing it returns is
\* Err(BadStatusCodeError(404)).
C2_NotFoundBecomesUnsupported ==
    (pc = "built" /\ applied >= 1) =>
        /\ prev = NotFoundResult => result = Err([variant |-> "UnsupportedFeature"])
        /\ result # NotFoundResult

\* C2 witness: the transform ran on a 404 and returned UnsupportedFeature.
C2_Witness ==
    /\ pc = "built" /\ applied = 1
    /\ origin.kind = "status" /\ origin.sc = 404
    /\ prev = NotFoundResult
    /\ result = Err([variant |-> "UnsupportedFeature"])

\* C3: on every argument other than Err(BadStatusCodeError(404)) the
\* transform returns its argument: same variant, same payload.
C3_OtherwiseUnchanged ==
    (pc = "built" /\ applied >= 1 /\ prev # NotFoundResult) => result = prev

\* C3 witness: the transform ran on a 410 and returned it.
C3_Witness ==
    /\ pc = "built" /\ applied = 1
    /\ prev = Err(BadStatusCodeError(410))
    /\ result = prev

\* C4: applying the transform twice gives what applying it once gives.
C4_Idempotent ==
    (pc = "built" /\ applied >= 2) => result = first

\* C4 witness: the transform ran twice, starting from a 404.
C4_Witness ==
    /\ pc = "built" /\ applied = 2
    /\ origin.kind = "status" /\ origin.sc = 404
    /\ first = Err([variant |-> "UnsupportedFeature"])
    /\ result = first

\* C5 as stated: two RawJsonApiError values that differ in code or in
\* message never convert to equal Error values, recognized codes included.
C5_NeverMerges ==
    (pc = "built" /\ origin.kind = "raw") =>
        \A r \in RawErrors : r # origin.raw => ErrorFromRaw(r) # result.err

\* C5 amended: values that differ in code never convert to equal values,
\* and values with an unrecognized code that differ in message neither; for
\* a recognized code the message is dropped, so that values with the same
\* recognized code convert to equal values whatever their messages.
C5_CodeKeptMessageKeptWhenUnrecognized ==
    (pc = "built" /\ origin.kind = "raw") =>
        \A r \in RawErrors :
            /\ r.code # origin.raw.code => ErrorFromRaw(r) # result.err
            /\ (origin.raw.code \notin RecognizedCodes /\ r # origin.raw)
                   => ErrorFromRaw(r) # result.err
            /\ (origin.raw.code \in RecognizedCodes /\ r.code = origin.raw.code)
                   => ErrorFromRaw(r) = result.err

\* C5 witness: a recognized code with a message was converted.
C5_Witness ==
    /\ pc = "built" /\ origin.kind = "raw"
    /\ origin.raw = [code |-> 2001, message |-> Some("forbidden")]
    /\ result = Err([variant |-> "ApiError", e |-> [api |-> "AccessForbidden"]])

\* The year of the local date of a timestamp.
LocalYear(t) == CivilFromDays(LocalOf(t).lday).year

ParseFailureReasons ==
    {DisplayParseError(k) : k \in {"OutOfRange", "Impossible", "NotEnough", "Invalid",
                                   "TooShort", "TooLong", "BadFormat"}}

\* C7 as stated: for every malformed text, deserialize fails and the
\* message contains the text literally together with the parse failure
\* reason.
C7_MessageHoldsLiteralText ==
    (pc = "done" /\ dt = Nothing /\ wire \in MalformedTexts) =>
        /\ ~decoded.ok
        /\ Contains(decoded.custom, wire)
        /\ \E reason \in ParseFailureReasons : Contains(decoded.custom, reason)

\* The characters that {:?} writes as a backslash and a character.
EscapedChars == {"\"", "\\", "\n", "\t", "\r"}

RECURSIVE CountEscaped(_, _)
CountEscaped(s, i) ==
    IF i > Len(s) THEN 0
    ELSE (IF CharAt(s, i) \in EscapedChars THEN 1 ELSE 0) + CountEscaped(s, i + 1)

RECURSIVE Unescape(_, _)
\* The text an escaped text stands for.
Unescape(s, i) ==
    IF i > Len(s) THEN ""
    ELSE IF CharAt(s, i) = "\\" /\ i < Len(s)
         THEN (CASE CharAt(s, i + 1) = "n" -> "\n"
                 [] CharAt(s, i + 1) = "t" -> "\t"
                 [] CharAt(s, i + 1) = "r" -> "\r"
                 [] OTHER -> CharAt(s, i + 1)) \o Unescape(s, i + 2)
         ELSE CharAt(s, i) \o Unescape(s, i + 1)

\* C7 amended: every malformed text makes deserialize fail, and the message
\* of a failure is "invaild timestamp ", the text in double quotes with each
\* quote, backslash and control character written as a backslash escape,
\* ": " and the parse failure reason; the text is in the message literally
\* when it holds no such character.
C7_MessageHoldsEscapedText ==
    (pc = "done" /\ dt = Nothing) =>
        /\ wire \in MalformedTexts => ~decoded.ok
        /\ ~decoded.ok =>
            \E reason \in ParseFailureReasons :
                LET head == "invaild timestamp \""
                    tail == "\": " \o reason
                    msg == decoded.custom
                    body == SubSeq(msg, Len(head) + 1, Len(msg) - Len(tail))
                IN /\ Len(msg) >= Len(head) + Len(tail)
                   /\ SubSeq(msg, 1, Len(head)) = head
                   /\ SubSeq(msg, Len(msg) - Len(tail) + 1, Len(msg)) = tail
                   /\ Len(body) = Len(wire) + CountEscaped(wire, 1)
                   /\ Unescape(body, 1) = wire
                   /\ CountEscaped(wire, 1) = 0 => Contains(msg, wire)

\* C7 witness: a text with a double quote in it was refused.
C7_Witness ==
    /\ pc = "done" /\ dt = Nothing
    /\ wire = "a\"b"
    /\ ~decoded.ok
    /\ decoded.custom = "invaild timestamp \"a\\\"b\": premature end of input"

\* C8: a serde_json::Error converts to
\* UnparseableResponseError(JsonDeError(e)) and a quick_xml::DeError to
\* UnparseableResponseError(XmlDeError(e)), the native error unchanged.
C8_DecodeFailureClassified ==
    /\ (pc = "built" /\ origin.kind = "json") =>
           result = Err([variant |-> "UnparseableResponseError",
                         e |-> [de |-> "JsonDeError", e |-> origin.e]])
    /\ (pc = "built" /\ origin.kind = "xml") =>
           result = Err([variant |-> "UnparseableResponseError",
                         e |-> [de |-> "XmlDeError", e |-> origin.e]])

\* C8 witness: a JSON decode failure was converted.
C8_Witness ==
    /\ pc = "built" /\ origin.kind = "json"
    /\ origin.e.msg = "expected value"
    /\ result.err.variant = "UnparseableResponseError"
    /\ result.err.e.de = "JsonDeError"

\* C9 as stated: the rendered text of Error::Other(s) is s, with nothing
\* before or after it.
C9_OtherRendersVerbatim ==
    (rendered # Nothing /\ sink /\ result.err.variant = "Other") =>
        rendered.text = result.err.s

\* C9 amended: the rendered text of Error::Other(s) is "error: " followed
\* by s verbatim, and nothing after it.
C9_OtherRendersWithPrefix ==
    (rendered # Nothing /\ sink /\ result.err.variant = "Other") =>
        rendered = [ok |-> TRUE, text |-> "error: " \o result.err.s]

\* C9 witness: an Other error was rendered.
C9_Witness ==
    /\ rendered # Nothing /\ sink
    /\ result = Err([variant |-> "Other", s |-> "unexpected response"])
    /\ rendered.text = "error: unexpected response"

\* C10 as stated: when the sink accepts writes, Display::fmt returns Ok for
\* every variant and payload, a TransportError whose own Display fails
\* included.
C10_RenderingNeverFails ==
    (rendered # Nothing /\ sink) => rendered.ok

\* C10 amended: when the sink accepts writes, Display::fmt returns Ok for
\* every variant and payload, except for a TransportError whose own Display
\* fails: that failure is returned.
C10_RenderingFailsOnlyWithTransport ==
    (rendered # Nothing /\ sink) =>
        rendered.ok = (result.err.variant = "TransportError" => result.err.te.fmt_ok)

\* C10 witness: a BadContentTypeError without a header was rendered.
C10_Witness ==
    /\ rendered # Nothing /\ sink
    /\ result = Err([variant |-> "BadContentTypeError", ct |-> None])
    /\ rendered = [ok |-> TRUE, text |-> "bad content type: got None"]

=============================================================================
